---- MODULE Spec2Model ----
(***************************************************************************)
(* Model of api/subscribe.js: the waitlist endpoint.  One serverless       *)
(* handler serves OPTIONS, GET (count) and POST (append an email) against  *)
(* a single remote document, waitlist.md, read with getFile and written    *)
(* conditionally (on the blob sha) with updateFile.                        *)
(*                                                                         *)
(* Text is modelled as sequences of one-character strings, so that the     *)
(* regular expressions, trim, trimEnd, toLowerCase, split and the template *)
(* literal are computed character by character as the code computes them. *)
(***************************************************************************)
EXTENDS Integers, Sequences, FiniteSets, TLC

(***************************************************************************)
(* Bounds of the model.                                                    *)
(***************************************************************************)
\* number of requests the platform delivers (concurrently or in sequence)
NumReqs == 2

(***************************************************************************)
(* Characters and strings.                                                 *)
(***************************************************************************)
\* characters matched by \s in a JavaScript regular expression, and removed
\* by trim / trimEnd (those of the model's alphabet)
Whitespace == {" ", "\t", "\n", "\r"}

\* line terminators: the characters "." does not match
LineTerminators == {"\n", "\r"}

\* U+2014 EM DASH, the separator of an entry line (one character of the
\* text; the module is written in ASCII)
EmDash == "<U+2014>"

\* characters matched by \d
Digits == <<"0", "1", "2", "3", "4", "5", "6", "7", "8", "9">>

DigitChars == {Digits[i] : i \in 1..10}

UpperCase == <<"A", "B", "C", "D", "E", "F", "G", "H", "I", "J", "K", "L", "M",
               "N", "O", "P", "Q", "R", "S", "T", "U", "V", "W", "X", "Y", "Z">>

LowerCase == <<"a", "b", "c", "d", "e", "f", "g", "h", "i", "j", "k", "l", "m",
               "n", "o", "p", "q", "r", "s", "t", "u", "v", "w", "x", "y", "z">>

\* the lower case letter of each upper case letter
LowerOf ==
    [c \in {UpperCase[i] : i \in 1..26} |->
        LowerCase[CHOOSE i \in 1..26 : UpperCase[i] = c]]

\* String.prototype.toLowerCase
toLowerCase(s) ==
    [i \in 1..Len(s) |-> IF s[i] \in DOMAIN LowerOf THEN LowerOf[s[i]] ELSE s[i]]

\* index of the last character of s[1..i] that is no whitespace, 0 if none
RECURSIVE LastKept(_, _)
LastKept(s, i) ==
    IF i = 0 \/ s[i] \notin Whitespace THEN i ELSE LastKept(s, i - 1)

\* index of the first character of s[i..] that is no whitespace, Len(s) + 1
\* if none
RECURSIVE FirstKept(_, _)
FirstKept(s, i) ==
    IF i > Len(s) \/ s[i] \notin Whitespace THEN i ELSE FirstKept(s, i + 1)

\* String.prototype.trimEnd: drop the trailing whitespace
trimEnd(s) == SubSeq(s, 1, LastKept(s, Len(s)))

\* String.prototype.trim: drop the leading and the trailing whitespace
trim(s) == SubSeq(s, FirstKept(s, 1), LastKept(s, Len(s)))

\* String(number): the decimal digits of a positive integer
RECURSIVE NumberToString(_)
NumberToString(n) ==
    IF n < 10 THEN <<Digits[n + 1]>>
    ELSE NumberToString(n \div 10) \o <<Digits[(n % 10) + 1]>>

\* String.prototype.split('\n'): the lines of a text, without their "\n"
RECURSIVE split(_)
split(s) ==
    LET nl == {i \in 1..Len(s) : s[i] = "\n"}
    IN  IF nl = {} THEN <<s>>
        ELSE LET i == CHOOSE k \in nl : \A j \in nl : k <= j
             IN  <<SubSeq(s, 1, i - 1)>> \o split(SubSeq(s, i + 1, Len(s)))

(***************************************************************************)
(* isValidEmail: /^[^\s@]+@[^\s@]+\.[^\s@]+$/.test(email) and              *)
(* email.length <= 254.                                                    *)
(***************************************************************************)
MaxEmailLength == 254

\* [^\s@]+ over positions lo..hi of s
PlainRun(s, lo, hi) ==
    /\ lo <= hi
    /\ \A p \in lo..hi : s[p] \notin Whitespace /\ s[p] # "@"

\* /^[^\s@]+@[^\s@]+\.[^\s@]+$/.test(s)
EmailPattern(s) ==
    \E a \in {p \in 1..Len(s) : s[p] = "@"} :
        \E d \in {p \in (a + 2)..(Len(s) - 1) : s[p] = "."} :
            /\ PlainRun(s, 1, a - 1)
            /\ PlainRun(s, a + 1, d - 1)
            /\ PlainRun(s, d + 1, Len(s))

\* isValidEmail without the length limit (a variant C8 must tell from
\* isValidEmail)
isValidEmailOfAnyLength(email) == EmailPattern(email)

isValidEmail(email) == EmailPattern(email) /\ Len(email) <= MaxEmailLength

(***************************************************************************)
(* parseEmails: every line matching /^\d+\.\s+(.+@.+\..+)\s+<U+2014>\s+/   *)
(* contributes its group 1, trimmed and lowercased.                        *)
(***************************************************************************)
\* length of the run of digits that starts at position i + 1 of the line
\* (\d+ is greedy, and the "." that must follow is no digit, so the run is
\* taken whole)
RECURSIVE DigitRun(_, _)
DigitRun(line, i) ==
    IF i < Len(line) /\ line[i + 1] \in DigitChars
    THEN DigitRun(line, i + 1)
    ELSE i

LeadingDigits(line) == DigitRun(line, 0)

\* \s+<U+2014>\s+ matches right after position k of the line
SeparatorAfter(line, k) ==
    /\ k + 3 <= Len(line)
    /\ line[k + 1] \in Whitespace
    /\ \E m \in (k + 1)..(Len(line) - 2) :
           /\ line[m + 1] = EmDash
           /\ line[m + 2] \in Whitespace
           /\ \A p \in (k + 1)..m : line[p] \in Whitespace

\* a group that asks for the @ only (a variant C13 must tell from
\* GroupMatches)
GroupMatchesWithoutDot(line, s, k) ==
    /\ \A p \in s..k : line[p] \notin LineTerminators
    /\ \E a \in (s + 1)..(k - 1) : line[a] = "@"

\* .+@.+\..+ matches exactly positions s..k of the line
GroupMatches(line, s, k) ==
    /\ \A p \in s..k : line[p] \notin LineTerminators
    /\ \E a \in (s + 1)..k : \E d \in (a + 2)..(k - 1) :
           line[a] = "@" /\ line[d] = "."

\* the ends k of a match of group 1 that starts at s
GroupEnds(line, s) ==
    {k \in s..Len(line) : SeparatorAfter(line, k) /\ GroupMatches(line, s, k)}

\* the starts of group 1: after the digits, the "." and one or more
\* whitespace characters, where the rest of the pattern can still match
GroupStarts(line) ==
    LET n == LeadingDigits(line)
    IN  IF n = 0 \/ n + 1 > Len(line) \/ line[n + 1] # "."
        THEN {}
        ELSE {s \in (n + 3)..Len(line) :
                 /\ \A p \in (n + 2)..(s - 1) : line[p] \in Whitespace
                 /\ GroupEnds(line, s) # {}}

\* match[1]: the quantifiers are greedy, so the whitespace before the group
\* is as long as a match allows, and then the group as long as possible
MatchGroup(line, starts) ==
    LET s    == CHOOSE i \in starts : \A j \in starts : j <= i
        ends == GroupEnds(line, s)
        k    == CHOOSE i \in ends : \A j \in ends : j <= i
    IN  SubSeq(line, s, k)

\* the loop over the lines: a line that matches pushes its group 1, trimmed
\* and lowercased
RECURSIVE CollectEmails(_)
CollectEmails(lines) ==
    IF lines = <<>> THEN <<>>
    ELSE LET starts == GroupStarts(Head(lines))
             rest   == CollectEmails(Tail(lines))
         IN  IF starts # {}
             THEN <<toLowerCase(trim(MatchGroup(Head(lines), starts)))>> \o rest
             ELSE rest

parseEmails(mdContent) == CollectEmails(split(mdContent))

\* Array.prototype.includes
includes(emails, e) == \E i \in 1..Len(emails) : emails[i] = e


(***************************************************************************)
(* Inputs: the request bodies, the dates and the documents the store may   *)
(* hold when the first request arrives.                                    *)
(***************************************************************************)
\* the header of a document the handler creates
Header == <<"#", " ", "W", "a", "i", "t", "l", "i", "s", "t", " ",
            "S", "i", "g", "n", "u", "p", "s", "\n", "\n">>

\* the persisted layout: the header and two entries
SampleDocument ==
    Header \o
    <<"1", ".", " ", "x", "@", "y", ".", "z", " ", EmDash, " ",
      "2", "0", "2", "4", "-", "0", "1", "-", "1", "5", "\n",
      "2", ".", " ", "b", "@", "c", ".", "d", " ", EmDash, " ",
      "2", "0", "2", "4", "-", "0", "1", "-", "1", "6", "\n">>

\* the contents of waitlist.md before the first request, when it exists
InitialDocuments == {Header, SampleDocument}

\* new Date().toISOString().split('T')[0]: the days a run may take place on
Dates == << <<"2", "0", "2", "4", "-", "0", "1", "-", "1", "6">>,
            <<"2", "0", "2", "4", "-", "0", "1", "-", "1", "7">> >>

\* an address of n characters that matches the pattern: aaa...a@a.a
LongEmail(n) ==
    [i \in 1..n |-> IF i = n - 3 THEN "@" ELSE IF i = n - 1 THEN "." ELSE "a"]

\* req.body.email; the empty string also stands for a body without email
EmailInputs ==
    { <<>>,
      <<"n", "o", "t", "a", "n", "e", "m", "a", "i", "l">>,
      <<"a", "@", "b">>,
      LongEmail(MaxEmailLength + 1),
      <<" ", "a", "@", "b", ".", "c", " ">>,
      <<"a", "@", "b", ".", "c">>,
      <<"A", "@", "b", ".", "C">>,
      <<"x", "@", "y", ".", "z">> }

\* req.method
Methods == {"OPTIONS", "GET", "POST", "DELETE"}

Reqs == 1..NumReqs

(***************************************************************************)
(* State.                                                                  *)
(***************************************************************************)
VARIABLES
    remote,  \* waitlist.md in the repository: exists, content, sha
    clock,   \* index in Dates of the day the requests arrive on
    h,       \* h[r]: the handler invocation serving request r
    log      \* history of the run, read by the properties only

vars == <<remote, clock, h, log>>

\* file.sha of a document that does not exist; `sha && { sha }` leaves it out
null == 0

\* res.json / res.end not called yet; a body without a count field
None == -1

\* for (let attempt = 0; attempt < 3; attempt++)
MaxAttempts == 3

\* the response headers with one header missing (a variant C14 must tell
\* from CorsHeaders)
CorsHeadersWithoutAllowHeaders ==
    { <<"Access-Control-Allow-Origin", "*">>,
      <<"Access-Control-Allow-Methods", "GET, POST, OPTIONS">> }

\* res.setHeader(...): the headers every response carries
CorsHeaders ==
    { <<"Access-Control-Allow-Origin", "*">>,
      <<"Access-Control-Allow-Methods", "GET, POST, OPTIONS">>,
      <<"Access-Control-Allow-Headers", "Content-Type">> }

\* cors: the headers set on the response; sent: "" while nothing is sent,
\* "json" after res.json, "end" after res.end (a response without body)
IdleHandler ==
    [ pc |-> "idle", method |-> "", email |-> <<>>, normalizedEmail |-> <<>>,
      attempt |-> 0, content |-> <<>>, sha |-> null, number |-> 0,
      cors |-> {}, sent |-> "", status |-> None, count |-> None ]

\* what the properties need to know of the past of request r:
\*   fetches, failedFetches  calls of getFile, and those that threw
\*   writes, accepted        calls of updateFile, and those the store accepted
\*   rejected                calls of updateFile refused for a stale sha
\*   failedWrites            calls of updateFile that failed otherwise
\*   waits                   backoff delays started
\*   floor                   greatest count a POST had returned with 200 when
\*                           r arrived
\*   seen                    entries decoded from the last fetched document
\*   alone                   no other request was in flight when r arrived
\*   known                   the document held the email of r, trimmed and
\*                           lowercased, when r arrived
IdleLog ==
    [ fetches |-> 0, failedFetches |-> 0, writes |-> 0, accepted |-> 0,
      rejected |-> 0, failedWrites |-> 0, waits |-> 0, floor |-> 0,
      seen |-> None, alone |-> FALSE, known |-> FALSE ]

Init ==
    /\ remote \in {[exists |-> FALSE, content |-> <<>>, sha |-> null]}
                  \cup {[exists |-> TRUE, content |-> d, sha |-> 1] :
                           d \in InitialDocuments}
    /\ clock \in 1..Len(Dates)
    /\ h = [r \in Reqs |-> IdleHandler]
    /\ log = [r \in Reqs |-> IdleLog]


(***************************************************************************)
(* The steps of the handler.  A step runs from one await to the next: the  *)
(* store (or the timer) answers, and the handler continues synchronously   *)
(* until it awaits again or responds.                                      *)
(***************************************************************************)
\* a 409 that is sent without leaving the retry loop (a variant C18 must
\* tell from Respond)
RespondThenRetry(hr, status, count) ==
    [hr EXCEPT !.pc = IF status = 409 THEN "sleep" ELSE "done",
               !.status = status, !.count = count, !.sent = "json"]

\* res.status(status).json({..., count})
Respond(hr, status, count) ==
    [hr EXCEPT !.pc = "done", !.status = status, !.count = count,
               !.sent = "json"]

\* res.status(status).end()
End(hr, status) ==
    [hr EXCEPT !.pc = "done", !.status = status, !.sent = "end"]

\* a catch block that never retries (a variant C5 must tell from Catch)
CatchWithoutRetry(hr) == Respond(hr, 500, None)

\* a catch block that gives up after the second attempt (a variant C17 must
\* tell from Catch)
CatchAfterTwoAttempts(hr) ==
    IF hr.attempt >= 1
    THEN Respond(hr, 500, None)
    ELSE [hr EXCEPT !.pc = "sleep"]

\* the catch block of the retry loop: the last attempt answers 500, the
\* others start the delay before the next attempt
Catch(hr) ==
    IF hr.attempt = MaxAttempts - 1
    THEN Respond(hr, 500, None)
    ELSE [hr EXCEPT !.pc = "sleep"]

\* normalize without toLowerCase (a variant C2 must tell from normalize)
normalizeKeepingCase(email) == trim(email)

\* const normalizedEmail = email.trim().toLowerCase()
normalize(email) == toLowerCase(trim(email))

\* !email || !isValidEmail(email)
rejectsEmail(email) == email = <<>> \/ ~isValidEmail(email)

\* nextNumber counting from 0 (a variant C1 must tell from nextNumber)
nextNumberFromZero(emails) == Len(emails)

\* const number = emails.length + 1
nextNumber(emails) == Len(emails) + 1

\* `${number}. ${normalizedEmail} <U+2014> ${timestamp}\n`
newLine(number, normalizedEmail, timestamp) ==
    NumberToString(number) \o <<".", " ">> \o normalizedEmail
        \o <<" ", EmDash, " ">> \o timestamp \o <<"\n">>

\* content.trimEnd() + '\n' + newLine
updatedContent(content, line) == trimEnd(content) \o <<"\n">> \o line

\* the greatest count a POST has returned with status 200 so far
ReturnedCount ==
    LET counts == {h[q].count : q \in {p \in Reqs : /\ h[p].method = "POST"
                                                    /\ h[p].status = 200}}
    IN  IF counts = {} THEN 0 ELSE CHOOSE c \in counts : \A d \in counts : d <= c

\* The platform invokes the handler for request r: the CORS headers, the
\* OPTIONS and 405 answers and the validation of the body run before the
\* first await.  Requests are numbered in the order they arrive.
Receive(r, method, email) ==
    /\ h[r].pc = "idle"
    /\ \A q \in Reqs : q < r => h[q].pc # "idle"
    /\ method # "POST" => email = <<>>
    /\ LET hr == [IdleHandler EXCEPT !.method = method, !.email = email,
                                     !.cors = CorsHeaders]
       IN  h' = [h EXCEPT ![r] =
                    IF method = "OPTIONS" THEN End(hr, 200)
                    ELSE IF method = "GET" THEN [hr EXCEPT !.pc = "getFile"]
                    ELSE IF method # "POST" THEN Respond(hr, 405, None)
                    ELSE IF rejectsEmail(email) THEN Respond(hr, 400, None)
                    ELSE [hr EXCEPT !.pc = "getFile",
                                    !.normalizedEmail = normalize(email),
                                    !.attempt = 0]]
    /\ log' = [log EXCEPT ![r].floor = ReturnedCount,
                          ![r].alone = \A q \in Reqs \ {r} :
                                           h[q].pc \in {"idle", "done"},
                          ![r].known =
                              /\ remote.exists
                              /\ includes(parseEmails(remote.content),
                                          toLowerCase(trim(email)))]
    /\ UNCHANGED <<remote, clock>>

\* an attempt that keeps the number of the first attempt and checks for a
\* duplicate on the first attempt only (a variant C9 must tell from Attempt)
AttemptReusingFirst(hr, content, sha, emails, timestamp) ==
    IF hr.attempt = 0 /\ includes(emails, hr.normalizedEmail)
    THEN Respond(hr, 409, Len(emails))
    ELSE LET number == IF hr.attempt = 0 THEN nextNumber(emails) ELSE hr.number
         IN  [hr EXCEPT !.pc = "updateFile",
                        !.content = updatedContent(content,
                                        newLine(number, hr.normalizedEmail,
                                                timestamp)),
                        !.sha = sha,
                        !.number = number]

\* an attempt that sends the sha of the first attempt with every write (a
\* variant C19 must tell from Attempt)
AttemptWithFirstSha(hr, content, sha, emails, timestamp) ==
    IF includes(emails, hr.normalizedEmail)
    THEN Respond(hr, 409, Len(emails))
    ELSE [hr EXCEPT !.pc = "updateFile",
                    !.content = updatedContent(content,
                                    newLine(nextNumber(emails),
                                            hr.normalizedEmail, timestamp)),
                    !.sha = IF hr.attempt = 0 THEN sha ELSE hr.sha,
                    !.number = nextNumber(emails)]

\* the attempt of a POST from the answer of getFile to updateFile
Attempt(hr, content, sha, emails, timestamp) ==
    IF includes(emails, hr.normalizedEmail)
    THEN Respond(hr, 409, Len(emails))
    ELSE [hr EXCEPT !.pc = "updateFile",
                    !.content = updatedContent(content,
                                    newLine(nextNumber(emails),
                                            hr.normalizedEmail, timestamp)),
                    !.sha = sha,
                    !.number = nextNumber(emails)]

\* a GET that never decodes the document (a variant C7 must tell from
\* countResponse)
countResponseWithoutDecoding(hr, file) == Respond(hr, 200, 0)

\* GET: res.status(200).json({ count: 0 }) without a document, else the
\* number of emails parsed from it
countResponse(hr, file) ==
    IF ~file.exists THEN Respond(hr, 200, 0)
    ELSE Respond(hr, 200, Len(parseEmails(file.content)))

\* a GET that surfaces the store fault (a variant C6 must tell from
\* countOnError)
countOnErrorSurfaced(hr) == Respond(hr, 500, None)

\* GET: the catch block answers 200 with count 0
countOnError(hr) == Respond(hr, 200, 0)

\* an attempt that sends a sha for a document it did not find (a variant C11
\* must tell from attemptWith)
attemptWithToken(hr, file, timestamp) ==
    IF file.exists
    THEN Attempt(hr, file.content, file.sha, parseEmails(file.content), timestamp)
    ELSE Attempt(hr, Header, 1, <<>>, timestamp)

\* POST: one pass of the loop body from the answer of getFile on
attemptWith(hr, file, timestamp) ==
    IF file.exists
    THEN Attempt(hr, file.content, file.sha, parseEmails(file.content), timestamp)
    ELSE Attempt(hr, Header, null, <<>>, timestamp)

\* getFile answers: the document and its sha, or null on 404
GetFile(r) ==
    /\ h[r].pc = "getFile"
    /\ h' = [h EXCEPT ![r] = IF h[r].method = "GET"
                             THEN countResponse(h[r], remote)
                             ELSE attemptWith(h[r], remote, Dates[clock])]
    /\ log' = [log EXCEPT ![r].fetches = @ + 1,
                          ![r].seen = IF remote.exists
                                      THEN Len(parseEmails(remote.content))
                                      ELSE 0]
    /\ UNCHANGED <<remote, clock>>

\* getFile throws: the store answered neither 2xx nor 404, or not at all
GetFileFails(r) ==
    /\ h[r].pc = "getFile"
    /\ h' = [h EXCEPT ![r] = IF h[r].method = "GET"
                             THEN countOnError(h[r])
                             ELSE Catch(h[r])]
    /\ log' = [log EXCEPT ![r].fetches = @ + 1, ![r].failedFetches = @ + 1,
                          ![r].waits = IF h'[r].pc = "sleep" THEN @ + 1 ELSE @]
    /\ UNCHANGED <<remote, clock>>

\* a store that takes every write (a variant C3 must tell from storeAccepts)
storeAcceptsAnySha(sha) == TRUE

\* a store that takes a write without sha as an overwrite (a variant C20
\* must tell from storeAccepts)
storeAcceptsWithoutSha(sha) ==
    IF sha = null THEN TRUE
    ELSE remote.exists /\ remote.sha = sha

\* the store's conditional write: with a sha the document must be at that
\* sha, without one the document must not exist
storeAccepts(sha) ==
    IF sha = null THEN ~remote.exists
    ELSE remote.exists /\ remote.sha = sha

\* a 200 that reports the entries found instead of the number written (a
\* variant C10 must tell from success)
successWithEntriesFound(hr) == Respond(hr, 200, hr.number - 1)

\* res.status(200).json({ message, count: number })
success(hr) == Respond(hr, 200, hr.number)

\* updateFile succeeds: the store commits the content under a new sha and
\* the handler answers 200
UpdateFile(r) ==
    /\ h[r].pc = "updateFile"
    /\ storeAccepts(h[r].sha)
    /\ remote' = [exists |-> TRUE, content |-> h[r].content,
                  sha |-> remote.sha + 1]
    /\ h' = [h EXCEPT ![r] = success(h[r])]
    /\ log' = [log EXCEPT ![r].writes = @ + 1, ![r].accepted = @ + 1]
    /\ UNCHANGED clock

\* updateFile throws: the store refused the write because the sha is stale
\* (or the document exists and no sha was sent)
UpdateFileRejected(r) ==
    /\ h[r].pc = "updateFile"
    /\ ~storeAccepts(h[r].sha)
    /\ h' = [h EXCEPT ![r] = Catch(h[r])]
    /\ log' = [log EXCEPT ![r].writes = @ + 1, ![r].rejected = @ + 1,
                          ![r].waits = IF h'[r].pc = "sleep" THEN @ + 1 ELSE @]
    /\ UNCHANGED <<remote, clock>>

\* updateFile throws: the store failed for another reason, writing nothing
UpdateFileFails(r) ==
    /\ h[r].pc = "updateFile"
    /\ h' = [h EXCEPT ![r] = Catch(h[r])]
    /\ log' = [log EXCEPT ![r].writes = @ + 1, ![r].failedWrites = @ + 1,
                          ![r].waits = IF h'[r].pc = "sleep" THEN @ + 1 ELSE @]
    /\ UNCHANGED <<remote, clock>>

\* a retry that sends the write of the attempt before again instead of
\* fetching (a variant C16 must tell from Sleep)
SleepThenWriteAgain(r) ==
    /\ h[r].pc = "sleep"
    /\ h' = [h EXCEPT ![r].pc = IF log[r].writes > 0 THEN "updateFile"
                                ELSE "getFile",
                      ![r].attempt = @ + 1]
    /\ UNCHANGED <<remote, clock, log>>

\* the 500 ms timer fires: the loop goes to its next attempt
Sleep(r) ==
    /\ h[r].pc = "sleep"
    /\ h' = [h EXCEPT ![r].pc = "getFile", ![r].attempt = @ + 1]
    /\ UNCHANGED <<remote, clock, log>>

Next ==
    \/ \E r \in Reqs, method \in Methods, email \in EmailInputs :
           Receive(r, method, email)
    \/ \E r \in Reqs : GetFile(r)
    \/ \E r \in Reqs : GetFileFails(r)
    \/ \E r \in Reqs : UpdateFile(r)
    \/ \E r \in Reqs : UpdateFileRejected(r)
    \/ \E r \in Reqs : UpdateFileFails(r)
    \/ \E r \in Reqs : Sleep(r)

Spec == Init /\ [][Next]_vars


(***************************************************************************)
(* What the properties read off the state.                                 *)
(***************************************************************************)
\* the text of the document, empty while it does not exist
Document == IF remote.exists THEN remote.content ELSE <<>>

\* the lines of a text that parseEmails takes for entries, in file order
EntryLines(content) == SelectSeq(split(content), LAMBDA l : GroupStarts(l) # {})

\* the integer written by a sequence of digits
RECURSIVE DigitsValue(_)
DigitsValue(ds) ==
    IF ds = <<>> THEN 0
    ELSE 10 * DigitsValue(SubSeq(ds, 1, Len(ds) - 1))
         + (CHOOSE v \in 0..9 : Digits[v + 1] = ds[Len(ds)])

\* the sequence number each entry line of a text carries, in file order
EntryNumbers(content) ==
    LET lines == EntryLines(content)
    IN  [k \in 1..Len(lines) |->
            DigitsValue(SubSeq(lines[k], 1, LeadingDigits(lines[k])))]

\* the POST requests, and those among them that were answered 200
Posts == {r \in Reqs : h[r].method = "POST"}

Succeeded == {r \in Posts : h[r].status = 200}

C2_UniqueEmails ==
    LET emails == parseEmails(Document)
    IN  \A i, j \in 1..Len(emails) : emails[i] = emails[j] => i = j

\* C2 witness: two handlers have submitted the same email in different letter
\* case at the same time; one appended it, the other lost the race for the
\* sha and found the email on its next attempt.
C2_Witness ==
    \E r \in Succeeded : \E q \in Posts :
        /\ h[q].email # h[r].email
        /\ h[q].normalizedEmail = h[r].normalizedEmail
        /\ log[q].rejected >= 1
        /\ h[q].status = 409

Sequential == \A r \in Reqs : h[r].pc # "idle" => log[r].alone

\* no call of the store made for r has failed for a reason of the store
Healthy(r) == log[r].failedFetches = 0 /\ log[r].failedWrites = 0

\* the uniqueness key of a raw input: trimmed and lowercased
Key(r) == toLowerCase(trim(h[r].email))

\* C4: when two POSTs are served in sequence by a healthy store and their
\* raw emails differ at most in letter case and surrounding whitespace (the
\* same valid normalized email, not yet in the document), the first is
\* answered 200, the second 409, and the second writes nothing.
C4_SameEmailTwice ==
    \A r \in Posts : \A q \in Posts :
        ( /\ r < q
          /\ h[r].pc = "done" /\ h[q].pc = "done"
          /\ Sequential /\ Healthy(r) /\ Healthy(q)
          /\ Key(r) = Key(q)
          /\ isValidEmail(Key(r))
          /\ ~log[r].known )
        => /\ h[r].status = 200
           /\ h[q].status = 409
           /\ log[q].accepted = 0


(***************************************************************************)
(* C5..C8: store faults, GET, validation.                                  *)
(***************************************************************************)
\* C5: a POST with a valid email all of whose fetches fail performs no
\* write, at most 3 fetches and at most 2 backoff waits, and once it has
\* responded it has responded 500 after exactly 3 fetches and 2 waits.
C5_FetchAlwaysFails ==
    \A r \in Posts :
        (~rejectsEmail(h[r].email) /\ log[r].failedFetches = log[r].fetches)
        => /\ log[r].writes = 0
           /\ log[r].fetches <= 3
           /\ log[r].waits <= 2
           /\ h[r].status # None =>
                  /\ h[r].status = 500
                  /\ log[r].fetches = 3
                  /\ log[r].waits = 2

\* C5 witness: a POST has been answered 500 after three failed fetches.
C5_Witness ==
    \E r \in Posts :
        h[r].status = 500 /\ log[r].fetches = 3 /\ log[r].failedFetches = 3

\* the GET requests
Gets == {r \in Reqs : h[r].method = "GET"}

\* C6: a GET responds 200 with a count and nothing else: 0 when the fetch
\* fails, 0 when the document is absent, else the number of entries decoded
\* from the document as fetched; and it never writes to the store.
C6_GetCount ==
    /\ [](\A r \in Gets :
             /\ h[r].status \in {None, 200}
             /\ h[r].pc \in {"getFile", "done"}
             /\ log[r].writes = 0 /\ log[r].waits = 0)
    /\ [][\A r \in Reqs :
             (h[r].method = "GET" /\ h[r].pc = "getFile" /\ h'[r].pc # "getFile")
             => /\ remote' = remote
                /\ h'[r].pc = "done"
                /\ h'[r].status = 200
                /\ h'[r].count =
                       IF log'[r].failedFetches > 0 \/ ~remote.exists THEN 0
                       ELSE Len(parseEmails(remote.content))
         ]_vars

\* C6 witness: against a document with entries, one GET whose fetch failed
\* has returned 0 and another whose fetch succeeded has returned their number.
C6_Witness ==
    \E r \in Gets : \E q \in Gets :
        /\ log[r].failedFetches = 1 /\ h[r].status = 200 /\ h[r].count = 0
        /\ log[q].failedFetches = 0 /\ h[q].status = 200
        /\ h[q].count = Len(parseEmails(Document))
        /\ h[q].count >= 2

Malformed(email) ==
    LET ats == {p \in 1..Len(email) : email[p] = "@"}
    IN  \/ email = <<>>
        \/ Len(email) > 254
        \/ Cardinality(ats) # 1
        \/ \E p \in 1..Len(email) : email[p] \in Whitespace
        \/ \A a \in ats : \A p \in (a + 1)..Len(email) : email[p] # "."

\* C8: a POST whose email is malformed responds 400 without any fetch, write
\* or backoff wait.
C8_InvalidInput ==
    \A r \in Posts :
        Malformed(h[r].email)
        => /\ h[r].pc = "done"
           /\ h[r].status = 400
           /\ log[r].fetches = 0 /\ log[r].writes = 0 /\ log[r].waits = 0

\* C8 witness: an address of more than 254 characters that fits the pattern
\* and an address without a dot in its domain have both been answered 400.
C8_Witness ==
    \E r \in Posts : \E q \in Posts :
        /\ Len(h[r].email) > 254 /\ EmailPattern(h[r].email)
        /\ h[r].status = 400
        /\ h[q].email = <<"a", "@", "b">>
        /\ h[q].status = 400


(***************************************************************************)
(* C9, C10: the conflict scenario and the meaning of a 200.                *)
(***************************************************************************)
\* the version token of the document in the store
CurrentSha == IF remote.exists THEN remote.sha ELSE null

\* C9: a write whose sha another handler's write has made stale is refused
\* and leaves the document alone; the attempt that follows the refusal
\* decides on the document as fetched again: 409 with its entry count and no
\* write if it holds the email, otherwise a write with the fetched sha and
\* the number (fetched entries + 1); and when that write is accepted, the
\* entry appended carries that number and 200 returns it.
C9_ConflictRetry ==
    [][\A r \in Reqs : h[r].method = "POST" =>
          LET emails == parseEmails(Document)
          IN  /\ ( /\ h[r].pc = "updateFile"
                   /\ h[r].sha # CurrentSha
                   /\ h'[r] # h[r] )
                 => /\ remote' = remote
                    /\ h'[r].status \in {None, 500}
                    /\ h'[r].pc = IF h[r].attempt = 2 THEN "done" ELSE "sleep"
              /\ ( /\ log[r].rejected >= 1
                   /\ h[r].pc = "getFile"
                   /\ log'[r].fetches = log[r].fetches + 1
                   /\ log'[r].failedFetches = log[r].failedFetches )
                 => IF includes(emails, h[r].normalizedEmail)
                    THEN /\ h'[r].pc = "done"
                         /\ h'[r].status = 409
                         /\ h'[r].count = Len(emails)
                         /\ remote' = remote
                    ELSE /\ h'[r].pc = "updateFile"
                         /\ h'[r].number = Len(emails) + 1
                         /\ h'[r].sha = CurrentSha
              /\ ( /\ log[r].rejected >= 1
                   /\ log'[r].accepted = log[r].accepted + 1 )
                 => /\ h'[r].status = 200
                    /\ h'[r].count = Len(emails) + 1
                    /\ EntryNumbers(Document')[Len(emails) + 1] = h'[r].count
                    /\ parseEmails(Document')[Len(emails) + 1]
                           = h[r].normalizedEmail
      ]_vars

\* C9 witness: a POST that fetched n entries had its write refused, fetched
\* again, found n + 1 entries without its email and was answered 200 with
\* count n + 2 on its second attempt.
C9_Witness ==
    \E r \in Succeeded :
        /\ log[r].rejected = 1
        /\ log[r].fetches = 2 /\ log[r].failedFetches = 0
        /\ h[r].count = log[r].seen + 1
        /\ \E q \in Succeeded : h[q].count = log[r].seen

FirstEntryLine(r) ==
    <<"1", ".", " ">> \o h[r].normalizedEmail \o <<" ", EmDash, " ">>
        \o Dates[clock]

\* C11: a POST with a valid email whose fetch finds no document goes on to
\* a write without sha for entry number 1; and when the store accepts a
\* write while the document is absent, that write carried no sha, the
\* document created decodes to the single entry
\* "1. <normalized email> <U+2014> <today>", and the POST returns 200 with
\* count 1.
C11_CreateWhenAbsent ==
    [][\A r \in Reqs : h[r].method = "POST" =>
          /\ ( /\ h[r].pc = "getFile"
               /\ ~remote.exists
               /\ log'[r].fetches = log[r].fetches + 1
               /\ log'[r].failedFetches = log[r].failedFetches )
             => /\ h'[r].pc = "updateFile"
                /\ h'[r].sha = null
                /\ h'[r].number = 1
          /\ ( /\ ~remote.exists
               /\ log'[r].accepted = log[r].accepted + 1 )
             => /\ h[r].sha = null
                /\ remote'.exists
                /\ EntryLines(Document') = <<FirstEntryLine(r)>>
                /\ parseEmails(Document') = <<h[r].normalizedEmail>>
                /\ EntryNumbers(Document') = <<1>>
                /\ h'[r].status = 200
                /\ h'[r].count = 1
      ]_vars

\* C11 witness: a POST that found no document has created it with a write
\* without sha and was answered 200 with count 1; the document holds its
\* entry and no other.
C11_Witness ==
    \E r \in Succeeded :
        /\ h[r].sha = null
        /\ log[r].fetches = 1 /\ log[r].seen = 0
        /\ h[r].count = 1
        /\ EntryLines(Document) = <<FirstEntryLine(r)>>

(***************************************************************************)
(* The codec on documents the handler did not write: waitlist.md is a file *)
(* of a repository and may hold any text.  Requests are served one after   *)
(* the other by a store that does not fail.                                *)
(***************************************************************************)
\* the most lines a document holds before the first request
MaxTextLines == 3

\* the title line of the header
TitleLine ==
    <<"#", " ", "W", "a", "i", "t", "l", "i", "s", "t", " ", "S",
      "i", "g", "n", "u", "p", "s">>

\* an entry line as the handler writes it
EntryLine ==
    <<"1", ".", " ", "x", "@", "y", ".", "z", " ", EmDash, " ", "2",
      "0", "2", "4", "-", "0", "1", "-", "1", "5">>

\* an entry line with tabs, double spaces and upper case
LooseEntryLine ==
    <<"2", ".", "\t", "B", "@", "c", ".", "D", " ", " ", EmDash, " ",
      " ", "q">>

\* a line without the `<integer>. ` prefix
NoPrefixLine ==
    <<"x", "@", "y", ".", "z", " ", EmDash, " ", "q">>

\* a line whose email has no @
NoAtLine ==
    <<"1", ".", " ", "x", "y", ".", "z", " ", EmDash, " ", "q">>

\* a line whose email has no dot after the @
NoDotLine ==
    <<"1", ".", " ", "x", "@", "y", "z", " ", EmDash, " ", "q">>

\* a line with a hyphen for the separator
NoSeparatorLine ==
    <<"1", ".", " ", "x", "@", "y", ".", "z", " ", "-", " ", "q">>

\* a line that ends behind the blank of the separator
DatelessLine ==
    <<"3", ".", " ", "c", "@", "d", ".", "e", " ", EmDash, " ">>

\* the lines the documents are made of; <<>> is the blank line
SampleLines ==
    { TitleLine, <<>>, EntryLine, LooseEntryLine, NoPrefixLine, NoAtLine,
      NoDotLine, NoSeparatorLine, DatelessLine }

\* the texts of exactly n lines, each line ended by a newline
RECURSIVE TextsOfLines(_)
TextsOfLines(n) ==
    IF n = 0 THEN {<<>>}
    ELSE {t \o l \o <<"\n">> : t \in TextsOfLines(n - 1), l \in SampleLines}

\* the raw texts of waitlist.md: up to MaxTextLines lines, the last of them
\* with or without its newline
RawTexts ==
    LET ended == UNION {TextsOfLines(n) : n \in 0..MaxTextLines}
    IN  ended \cup {SubSeq(t, 1, Len(t) - 1) : t \in ended \ {<<>>}}

\* req.body.email of the requests served on these documents; <<>> is the
\* body of a GET
CodecEmails ==
    {<<>>, <<"a", "@", "b", ".", "c">>, <<"x", "@", "y", ".", "z">>}

CodecInit ==
    /\ remote \in {[exists |-> TRUE, content |-> t, sha |-> 1] : t \in RawTexts}
    /\ clock = 1
    /\ h = [r \in Reqs |-> IdleHandler]
    /\ log = [r \in Reqs |-> IdleLog]

\* the platform invokes the handler when no other invocation is running
ReceiveInTurn(r, method, email) ==
    /\ \A q \in Reqs : h[q].pc \in {"idle", "done"}
    /\ Receive(r, method, email)

CodecNext ==
    \/ \E r \in Reqs, method \in {"GET", "POST"}, email \in CodecEmails :
           ReceiveInTurn(r, method, email)
    \/ \E r \in Reqs : GetFile(r)
    \/ \E r \in Reqs : UpdateFile(r)

CodecSpec == CodecInit /\ [][CodecNext]_vars


(***************************************************************************)
(* C12: decoding after the append.                                         *)
(***************************************************************************)
\* C12: for every raw text T and every valid new email, the text a POST
\* writes decodes to the entries decoded from T, in the same order, followed
\* by exactly one new entry, whose line carries the number (entries decoded
\* from T) + 1: no entry of T is lost or altered by the right-trim.
C12_RoundTrip ==
    [][\A r \in Reqs :
          log'[r].accepted = log[r].accepted + 1 =>
              LET old == parseEmails(Document)
                  new == parseEmails(Document')
              IN  /\ new = Append(old, h[r].normalizedEmail)
                  /\ Len(EntryLines(Document')) = Len(old) + 1
                  /\ SubSeq(EntryLines(Document'), 1, Len(old))
                         = EntryLines(Document)
                  /\ EntryNumbers(Document')[Len(old) + 1] = Len(old) + 1
      ]_vars

(***************************************************************************)
(* C13: the lines that count.                                              *)
(***************************************************************************)
\* the entry line grammar: an integer, a point and blanks; an email shape
\* (an @ with text before it, a dot behind it with text on both sides);
\* blanks, the em dash and a blank
WellFormedEntry(line) ==
    \E d \in 1..Len(line) :
        /\ \A i \in 1..d : line[i] \in DigitChars
        /\ d + 2 <= Len(line)
        /\ line[d + 1] = "."
        /\ line[d + 2] \in Whitespace
        /\ \E m \in (d + 9)..(Len(line) - 1) :
               /\ line[m] = EmDash
               /\ line[m - 1] \in Whitespace
               /\ line[m + 1] \in Whitespace
               /\ \E a \in (d + 4)..(m - 5) :
                      /\ line[a] = "@"
                      /\ \E p \in (a + 2)..(m - 3) :
                             /\ line[p] = "."
                             /\ \E s \in (d + 3)..(a - 1) :
                                 \E e \in (p + 1)..(m - 2) :
                                    /\ \A i \in (d + 2)..(s - 1) :
                                           line[i] \in Whitespace
                                    /\ \A i \in s..e :
                                           line[i] \notin LineTerminators
                                    /\ \A i \in (e + 1)..(m - 1) :
                                           line[i] \in Whitespace

\* the number of lines of a text that follow the grammar
WellFormedCount(content) ==
    LET lines == split(content)
    IN  Cardinality({i \in 1..Len(lines) : WellFormedEntry(lines[i])})

\* the sample lines that are no entries: the title, the blank line, and the
\* lines without prefix, without @, without dot, without separator
MalformedLines ==
    {TitleLine, <<>>, NoPrefixLine, NoAtLine, NoDotLine, NoSeparatorLine}

\* C13: for every raw text, decoding yields one email for each line that
\* follows the entry grammar and none for a title, a blank line or a line
\* without prefix, email shape or separator; a GET that fetches the text
\* returns the number of well-formed lines, and a POST that fetches it
\* answers 409 with that number or goes on to write with that number + 1.
C13_MalformedLinesSkipped ==
    /\ [](LET lines   == split(Document)
              entries == EntryLines(Document)
          IN  /\ Len(parseEmails(Document)) = WellFormedCount(Document)
              /\ \A l \in MalformedLines : \A k \in 1..Len(entries) :
                     entries[k] # l
              /\ \A i \in 1..Len(lines) :
                     lines[i] \in (SampleLines \ MalformedLines)
                     => \E k \in 1..Len(entries) : entries[k] = lines[i])
    /\ [][\A r \in Reqs :
             log'[r].fetches = log[r].fetches + 1
             => IF h[r].method = "GET"
                THEN /\ h'[r].status = 200
                     /\ h'[r].count = WellFormedCount(Document)
                ELSE \/ /\ h'[r].status = 409
                        /\ h'[r].count = WellFormedCount(Document)
                     \/ /\ h'[r].pc = "updateFile"
                        /\ h'[r].number = WellFormedCount(Document) + 1
         ]_vars

\* C13 witness: on a document of two entry lines and a line without @, a
\* GET has returned 2 and a POST has then appended entry number 3.
C13_Witness ==
    \E r \in Gets : \E q \in Succeeded :
        /\ h[r].status = 200 /\ h[r].count = 2
        /\ h[q].count = 3
        /\ \E i \in 1..Len(split(Document)) : split(Document)[i] = NoAtLine
        /\ Len(parseEmails(Document)) = 3

(***************************************************************************)
(* C14: method routing and the cross-origin headers.                       *)
(***************************************************************************)
\* C14: an OPTIONS request is answered 200 without body, a request of a
\* method other than OPTIONS, GET and POST is answered 405, both without a
\* fetch or a write; and every response, whatever its status (200, 400,
\* 405, 409, 500), carries allow-origin "*", allow-methods
\* "GET, POST, OPTIONS" and allow-headers "Content-Type".
C14_RoutingAndHeaders ==
    \A r \in Reqs :
        /\ h[r].method = "OPTIONS"
           => /\ h[r].pc = "done"
              /\ h[r].status = 200
              /\ h[r].sent = "end" /\ h[r].count = None
              /\ log[r].fetches = 0 /\ log[r].writes = 0
        /\ h[r].method \notin {"", "OPTIONS", "GET", "POST"}
           => /\ h[r].pc = "done"
              /\ h[r].status = 405
              /\ log[r].fetches = 0 /\ log[r].writes = 0
        /\ h[r].status # None
           => /\ h[r].status \in {200, 400, 405, 409, 500}
              /\ h[r].sent # ""
              /\ <<"Access-Control-Allow-Origin", "*">> \in h[r].cors
              /\ <<"Access-Control-Allow-Methods", "GET, POST, OPTIONS">>
                     \in h[r].cors
              /\ <<"Access-Control-Allow-Headers", "Content-Type">>
                     \in h[r].cors

\* C14 witness: an OPTIONS request has been answered 200 without body and
\* a DELETE 405, both with the three headers and without access to the store.
C14_Witness ==
    \E r \in Reqs : \E q \in Reqs :
        /\ h[r].method = "OPTIONS" /\ h[r].status = 200 /\ h[r].sent = "end"
        /\ h[q].method = "DELETE" /\ h[q].status = 405 /\ h[q].sent = "json"
        /\ Cardinality(h[r].cors) = 3 /\ h[q].cors = h[r].cors
        /\ log[r].fetches = 0 /\ log[q].fetches = 0

(***************************************************************************)
(* C15: the layout of a document the handler creates.                      *)
(***************************************************************************)
\* C15: the document created by the first successful POST against a store
\* without the document consists of the title line "# Waitlist Signups", a
\* blank line and the first entry line, in that order.
C15_FreshDocumentLayout ==
    [][\A r \in Reqs :
          (~remote.exists /\ log'[r].accepted = log[r].accepted + 1) =>
              LET lines == split(Document')
              IN  /\ Len(lines) >= 3
                  /\ lines[1] = TitleLine
                  /\ lines[2] = <<>>
                  /\ lines[3] = FirstEntryLine(r)
      ]_vars

(***************************************************************************)
(* C16: what a write is made of.                                           *)
(***************************************************************************)
\* C16: a POST gets to a write only through the successful fetch of the
\* same attempt, and the write is made of what that fetch returned: its sha
\* (none when the document was absent), its text right-trimmed plus the new
\* line, its entry count plus one.  The handler holds these unchanged until
\* it issues the write, issues at most one write per attempt, and the store
\* accepts the write only at that sha; nothing of an earlier attempt goes
\* into a later write.
C16_WriteFromSameAttempt ==
    [][\A r \in Reqs : h[r].method = "POST" =>
          /\ (h[r].pc # "updateFile" /\ h'[r].pc = "updateFile")
             => LET text   == IF remote.exists THEN remote.content ELSE Header
                    number == Len(parseEmails(Document)) + 1
                IN  /\ h[r].pc = "getFile"
                    /\ log'[r].fetches = log[r].fetches + 1
                    /\ log'[r].failedFetches = log[r].failedFetches
                    /\ h'[r].attempt = h[r].attempt
                    /\ h'[r].sha = CurrentSha
                    /\ h'[r].number = number
                    /\ h'[r].content =
                           trimEnd(text) \o <<"\n">> \o NumberToString(number)
                               \o <<".", " ">> \o h[r].normalizedEmail
                               \o <<" ", EmDash, " ">> \o Dates[clock]
                               \o <<"\n">>
          /\ (h[r].pc = "updateFile" /\ h'[r].pc = "updateFile")
             => h'[r] = h[r]
          /\ log'[r].writes # log[r].writes
             => /\ h[r].pc = "updateFile" /\ h'[r].pc # "updateFile"
                /\ log'[r].writes = log[r].writes + 1
                /\ log[r].writes <= h[r].attempt
                /\ log[r].fetches = h[r].attempt + 1
                /\ log'[r].accepted # log[r].accepted
                   => /\ h[r].sha = CurrentSha
                      /\ remote'.content = h[r].content
          /\ h'[r].attempt # h[r].attempt
             => /\ h'[r].attempt = h[r].attempt + 1
                /\ h'[r].pc = "getFile"
      ]_vars

\* C16 witness: a POST whose first write was refused and whose second fetch
\* failed has written on its third attempt with the sha of its third fetch,
\* and the store has accepted the write.
C16_Witness ==
    \E r \in Succeeded :
        /\ h[r].attempt = 2
        /\ log[r].rejected = 1 /\ log[r].failedFetches = 1
        /\ log[r].fetches = 3 /\ log[r].writes = 2
        /\ h[r].sha # null

(***************************************************************************)
(* C17: faults of the store inside the retry loop.                         *)
(***************************************************************************)
\* the calls of the store made for r that failed: fetches that threw,
\* writes refused for a stale sha, writes that failed otherwise
Failures(r) == log[r].failedFetches + log[r].rejected + log[r].failedWrites

\* C17: when a fetch or a write of a POST fails on attempt 1 or 2, the
\* handler sends no response and starts one backoff wait, after which it
\* starts the next attempt with the fetch; when it fails on attempt 3 the
\* handler answers 500.  A 500 is sent only after three failed attempts,
\* and a write the store accepts after one or two failed attempts is
\* answered 200.
C17_FaultsAbsorbed ==
    /\ [](\A r \in Posts :
             /\ h[r].status = 500
                => /\ h[r].attempt = 2
                   /\ Failures(r) = 3
                   /\ log[r].waits = 2
             /\ h[r].status # 500
                => /\ Failures(r) = h[r].attempt + (IF h[r].pc = "sleep"
                                                      THEN 1 ELSE 0)
                   /\ log[r].waits = Failures(r))
    /\ [][\A r \in Reqs : h[r].method = "POST" =>
             /\ log'[r].failedFetches + log'[r].rejected + log'[r].failedWrites
                    # Failures(r)
                => IF h[r].attempt < 2
                   THEN /\ h'[r].pc = "sleep"
                        /\ h'[r].status = None /\ h'[r].sent = ""
                        /\ log'[r].waits = log[r].waits + 1
                   ELSE /\ h'[r].pc = "done"
                        /\ h'[r].status = 500
                        /\ log'[r].waits = log[r].waits
             /\ (h[r].pc = "sleep" /\ h'[r] # h[r])
                => /\ h'[r].pc = "getFile"
                   /\ h'[r].attempt = h[r].attempt + 1
                   /\ log'[r] = log[r]
             /\ (Failures(r) >= 1 /\ log'[r].accepted = log[r].accepted + 1)
                => /\ log[r].fetches = h[r].attempt + 1
                   /\ h'[r].status = 200
         ]_vars

\* C17 witness: a POST whose first fetch failed and whose second attempt
\* was refused at the write has fetched and written on its third attempt
\* and was answered 200.
C17_Witness ==
    \E r \in Succeeded :
        /\ log[r].failedFetches = 1 /\ log[r].rejected = 1
        /\ log[r].waits = 2
        /\ h[r].attempt = 2
        /\ log[r].accepted = 1

(***************************************************************************)
(* C18: termination and the cost of a POST.  Every call of the store       *)
(* returns or throws in the end and every timer fires, so a handler that   *)
(* has been invoked and has not responded takes its next step in the end.  *)
(***************************************************************************)
\* the next step of the handler serving request r
Step(r) ==
    \/ Sleep(r)
    \/ GetFileFails(r)
    \/ UpdateFileFails(r)
    \/ UpdateFileRejected(r)
    \/ UpdateFile(r)
    \/ GetFile(r)

FairSpec == Spec /\ \A r \in Reqs : WF_vars(Step(r))

\* C18: every POST responds in the end, exactly once and with one of 200,
\* 400, 409 and 500, after at most 3 fetches, 3 writes and 2 backoff waits,
\* whatever the store answers and whatever the other handlers do; after its
\* response (200 and 409 included) the handler does nothing more; and while
\* a handler waits in its backoff every other handler that has not responded
\* can take its next step.
C18_PostTerminates ==
    /\ [](\A r \in Posts :
             /\ log[r].fetches <= 3 /\ log[r].writes <= 3 /\ log[r].waits <= 2
             /\ h[r].pc = "done" <=> h[r].status # None
             /\ h[r].status \in {None, 200, 400, 409, 500})
    /\ [][\A r \in Reqs :
             (h[r].method = "POST" /\ h[r].status # None)
             => (h'[r] = h[r] /\ log'[r] = log[r])]_vars
    /\ [](\A r \in Reqs : \A q \in Reqs \ {r} :
             (h[r].pc = "sleep" /\ h[q].pc \notin {"idle", "done"})
             => ENABLED Step(q))
    /\ \A r \in Reqs :
           (h[r].method = "POST") ~> (h[r].pc = "done" /\ h[r].status # None)

\* C18 witness: a POST has responded 500 after 3 fetches, 3 writes and 2
\* backoff waits while another POST, which took its steps while the first
\* was waiting, has responded 200.
C18_Witness ==
    \E r \in Posts : \E q \in Succeeded :
        /\ h[r].status = 500
        /\ log[r].fetches = 3 /\ log[r].writes = 3 /\ log[r].waits = 2
        /\ log[r].rejected >= 1
        /\ log[q].fetches >= 1

(***************************************************************************)
(* C19: as many POST handlers as the loop has attempts, each with an email *)
(* of its own, on a store that fails only by refusing a stale sha.         *)
(***************************************************************************)
\* the handlers of the race: one for each attempt of the retry loop
Racers == 1..MaxAttempts

\* req.body.email of the racing requests: valid, different after
\* normalization, and in none of the initial documents
RaceEmails ==
    { <<"a", "@", "b", ".", "c">>,
      <<"C", "@", "d", ".", "E">>,
      <<"e", "@", "f", ".", "g">> }

RaceInit ==
    /\ remote \in {[exists |-> FALSE, content |-> <<>>, sha |-> null]}
                  \cup {[exists |-> TRUE, content |-> d, sha |-> 1] :
                           d \in InitialDocuments}
    /\ clock \in 1..Len(Dates)
    /\ h = [r \in Racers |-> IdleHandler]
    /\ log = [r \in Racers |-> IdleLog]

\* a POST arrives with an email that no other handler has been given
ReceiveDistinct(r, email) ==
    /\ \A q \in Racers \ {r} : h[q].email # email
    /\ Receive(r, "POST", email)

RaceNext ==
    \/ \E r \in Racers, email \in RaceEmails : ReceiveDistinct(r, email)
    \/ \E r \in Racers : GetFile(r)
    \/ \E r \in Racers : UpdateFile(r)
    \/ \E r \in Racers : UpdateFileRejected(r)
    \/ \E r \in Racers : Sleep(r)

RaceSpec ==
    RaceInit /\ [][RaceNext]_vars /\ \A r \in Racers : WF_vars(Step(r))

\* C19: with up to 3 concurrent POST handlers, each with a distinct valid
\* email that is not in the document, and a store whose only failure is the
\* refusal of a stale sha, no handler responds 500 (nor 400 or 409), no
\* handler has more than two of its writes refused, and every handler
\* responds 200 in the end.
C19_AllRacersSucceed ==
    /\ [](\A r \in Racers :
             /\ h[r].status \in {None, 200}
             /\ log[r].rejected <= 2
             /\ log[r].failedFetches = 0 /\ log[r].failedWrites = 0)
    /\ \A r \in Racers : (h[r].method = "POST") ~> (h[r].status = 200)

\* C19 witness: the three handlers have responded 200, one of them on its
\* third attempt after the writes of the two others made its first two
\* writes stale.
C19_Witness ==
    /\ \A r \in Racers : h[r].status = 200
    /\ \E r \in Racers :
           /\ log[r].rejected = 2 /\ h[r].attempt = 2
           /\ h[r].count = Len(parseEmails(Document))
    /\ \A r \in Racers : \A q \in Racers : h[r].count = h[q].count => r = q

(***************************************************************************)
(* C20: the counts returned, from a store without the document on.         *)
(***************************************************************************)
FreshInit == Init /\ ~remote.exists

FreshSpec == FreshInit /\ [][Next]_vars

====
